---- MODULE Spec2Model ----
(***************************************************************************)
(* ESP32 GoPro time sync: the connection orchestration of                  *)
(* "src/gopro time sync/src/main.cpp" as a state machine.                  *)
(*                                                                         *)
(* setup() runs the stages scan -> BLE connect -> credential reads ->      *)
(* AP enable -> AP-state polling -> BLE disconnect -> WiFi join -> time     *)
(* apply, restarting the chip on any stage failure; loop() then polls the  *)
(* WiFi status once a second, re-runs the stages (reconnectToGoPro) behind *)
(* a 30 s gate when the link is down, and re-applies the time every hour.  *)
(*                                                                         *)
(* The program is single threaded: pc is the place the one thread is at,   *)
(* ctx the top-level function it is in.  Collaborator outcomes (scan       *)
(* results, BLE enumeration, characteristic reads, WiFi status, HTTP       *)
(* status) are inputs drawn with \E.  now is the time since boot in ms;    *)
(* it advances by the delays the code executes.                            *)
(***************************************************************************)
EXTENDS Integers, Sequences, FiniteSets, TLC

\* ---------------------------------------------------------------- constants
SCAN_TIME_SECONDS == 10
WIFI_CONNECT_TIMEOUT_MS == 20000
AP_READY_POLL_ATTEMPTS == 25
BEEP_DURATION_MS == 200
\* delay(30000) before ESP.restart()
RESTART_DELAY_MS == 30000
\* millis() - lastReconnectAttempt > 30000
RECONNECT_COOLDOWN_MS == 30000
\* millis() - lastSync > 3600000
RESYNC_PERIOD_MS == 3600000
\* delay(1000) at the end of loop()
LOOP_DELAY_MS == 1000
\* delay(200) between two AP-state polls
AP_POLL_DELAY_MS == 200
\* delay(500) between two WiFi status polls while joining
WIFI_POLL_DELAY_MS == 500
\* delay(1000): Serial settle, AP settle, after BLE disconnect, before HTTP
SETTLE_DELAY_MS == 1000
\* delay(500) before the credential reads in setup()
STABILIZE_DELAY_MS == 500
\* delay(2000) at the start of reconnectToGoPro()
RECONNECT_SETTLE_MS == 2000
\* apState >= 0x03: enabled and broadcasting
AP_BROADCASTING == 3

\* ------------------------------------------------------------------- bounds
\* health polls modelled one by one per boot (the idle stretches between them
\* are not counted)
MaxPolls == 2
\* advertised devices in one scan result
MaxScan == 2
\* width of the millis() counter.  unsigned long has 32 bits on the ESP32; the
\* model checker's integers are 32-bit signed, so the counter is modelled
\* narrower, still wider than both periods it is compared with
MillisBits == 24

\* ------------------------------------------------------------------ helpers
Pow2(n) == 2 ^ n

\* millis(): the time since boot, wrapped to the width of unsigned long
Millis(t) == t % Pow2(MillisBits)

\* A difference that takes a counter below its stored value for a long time
\* gone by.
ElapsedExpiredOnWrap(m, last) ==
    IF m >= last THEN m - last ELSE Pow2(MillisBits) - 1

\* millis() - last, in unsigned arithmetic
Elapsed(m, last) == (m - last) % Pow2(MillisBits)

\* (uint8_t)stateValue[0]
ToUint8(c) == c % 256


\* -------------------------------------------------------------- collaborators
\* The four control-plane characteristics (GOPRO_WIFI_*_UUID)
Required == {"ssid", "pwd", "enable", "state"}

\* The characteristics of a complete camera, as its enumeration lists them: a
\* foreign one first, then the four
FullEnumeration == <<"other", "ssid", "pwd", "enable", "state">>

\* The characteristics a camera can lack: none, any one, both credentials
AbsentSets == {{}} \cup {{c} : c \in Required} \cup {{"ssid", "pwd"}}

\* NimBLERemoteCharacteristic*: nullptr, an object of the current enumeration,
\* or an object of an earlier enumeration (deleted by getServices(true))
Null == 0
Live == 1
Stale == 2

\* advertised names, as sequences of characters
NameGoPro1 == <<"G", "o", "P", "r", "o", "1">>
NameGoPro2 == <<"G", "o", "P", "r", "o">>
NameLower == <<"g", "o", "p", "r", "o">>
NameShort == <<"G", "o", "P">>

\* the devices a scan can report: (name, address)
Devices ==
    { [name |-> NameGoPro1, addr |-> 1],
      [name |-> NameGoPro2, addr |-> 2],
      [name |-> NameLower, addr |-> 3],
      [name |-> NameShort, addr |-> 4] }

RECURSIVE SeqsUpTo(_, _)
\* every sequence over S of length at most n
SeqsUpTo(S, n) ==
    IF n = 0 THEN {<<>>}
    ELSE LET shorter == SeqsUpTo(S, n - 1)
         IN  shorter \cup {Append(q, x) : q \in {r \in shorter : Len(r) = n - 1}, x \in S}

ScanResults == SeqsUpTo(Devices, MaxScan)

\* what a characteristic read can hand back
SsidValue == "GP-AP"
PwdValue == "secret"
Garbage == "garbage"
EmptyValue == ""

\* HTTP status codes of the GET (negative: transport failure)
HttpCodes == {200, 204, 404, -1}

\* one read of the AP-state characteristic: unreadable, an empty value, or a
\* value whose first byte, as a char, is byte (-1 is 0xFF)
ApNotReadyAnswers ==
    {[kind |-> "unreadable", byte |-> 0], [kind |-> "empty", byte |-> 0],
     [kind |-> "byte", byte |-> 0], [kind |-> "byte", byte |-> 1],
     [kind |-> "byte", byte |-> 2]}

ApReadyAnswers ==
    {[kind |-> "byte", byte |-> 3], [kind |-> "byte", byte |-> 4],
     [kind |-> "byte", byte |-> -1]}

\* The camera's answers to the polls of one waitForAPMode: k1 and k2 in turn,
\* then v at poll r (0: never), then after
ApAnswers(k1, k2, r, v, after) ==
    [i \in 1..AP_READY_POLL_ATTEMPTS |->
        IF r = 0 THEN (IF i % 2 = 1 THEN k1 ELSE k2)
        ELSE IF i = r THEN v
        ELSE IF i > r THEN after
        ELSE IF i % 2 = 1 THEN k1 ELSE k2]

\* every such camera
AllApAnswers ==
    {ApAnswers(k1, k2, r, v, after) :
        k1 \in ApNotReadyAnswers, k2 \in ApNotReadyAnswers,
        r \in 0..AP_READY_POLL_ATTEMPTS, v \in ApReadyAnswers,
        after \in {[kind |-> "byte", byte |-> 0], [kind |-> "byte", byte |-> 3]}}

\* the polls at which the cameras of the orchestration runs first report a
\* broadcasting value: the first, or the last of the budget
ApReadyAttempts == {1, AP_READY_POLL_ATTEMPTS}

\* the cameras of the orchestration runs
SomeApAnswers ==
    {ApAnswers(k, k, r, [kind |-> "byte", byte |-> 3], [kind |-> "byte", byte |-> 0]) :
        k \in ApNotReadyAnswers, r \in ApReadyAttempts \cup {0}}

\* ------------------------------------------------------------ pure functions
\* "GoPro"
GOPRO_PREFIX == <<"G", "o", "P", "r", "o">>

\* String::startsWith
StartsWith(s, p) == Len(s) >= Len(p) /\ SubSeq(s, 1, Len(p)) = p

RECURSIVE FirstGoPro(_, _)
\* the for loop of scanForGoPro: index of the first result whose name starts
\* with "GoPro", 0 when the loop runs to its end
FirstGoPro(results, i) ==
    IF i > Len(results) THEN 0
    ELSE IF StartsWith(results[i].name, GOPRO_PREFIX) THEN i
    ELSE FirstGoPro(results, i + 1)

\* static NimBLEAddress addr = device.getAddress(): a function-local static is
\* initialised the first time control passes its declaration, and only then
StaticAddrInit(old, found) == IF old = 0 THEN found ELSE old

\* scanForGoPro: [ret: the address returned (0: nullptr), addr: the static]
ScanForGoProResult(results, addrOld) ==
    LET i == FirstGoPro(results, 1)
    IN  IF i = 0 THEN [ret |-> 0, addr |-> addrOld]
        ELSE LET a == StaticAddrInit(addrOld, results[i].addr)
             IN  [ret |-> a, addr |-> a]

\* A test that accepts the value 3 only.
ApStateReadyExact(apState) == apState = AP_BROADCASTING

\* the classification of checkAPModeStatus on a value that was read
ApStateReady(apState) == apState >= AP_BROADCASTING

\* A classification that takes every value that was read for broadcasting.
CheckAPModeStatusAnyValue(obs) == obs.kind = "byte"

\* checkAPModeStatus: the characteristic is unreadable, the value read is
\* empty, or its first byte is classified
CheckAPModeStatus(obs) ==
    IF obs.kind # "byte" THEN FALSE
    ELSE ApStateReady(ToUint8(obs.byte))

\* getServices(true) deletes the characteristic objects of the earlier
\* enumeration; the globals keep pointing at them
RefreshHandles(p) == [c \in Required |-> IF p[c] = Live THEN Stale ELSE p[c]]

RECURSIVE BindAll(_, _, _)
\* the for loops over services and characteristics: each match assigns its global
BindAll(p, chars, i) ==
    IF i > Len(chars) THEN p
    ELSE BindAll(IF chars[i] \in Required THEN [p EXCEPT ![chars[i]] = Live] ELSE p,
                 chars, i + 1)

RECURSIVE BindPositions(_, _, _)
\* the same loops, by object: the place in the enumeration of the object each
\* global points at when the loops are over (0: no object of this enumeration)
BindPositions(b, chars, i) ==
    IF i > Len(chars) THEN b
    ELSE BindPositions(IF chars[i] \in Required THEN [b EXCEPT ![chars[i]] = i] ELSE b,
                       chars, i + 1)

\* the check after the loops: the globals that are nullptr
MissingHandles(p) == {c \in Required : p[c] = Null}

\* if (setGoProDateTime()): httpCode == 200 || httpCode == 204
HttpApplied(code) == code = 200 \/ code = 204

RECURSIVE JoinWait(_, _)
\* the while loop of connectToGoProWiFi: the time it takes when the station
\* associates after assocAfter status polls (-1: never)
JoinWait(elapsed, assocAfter) ==
    IF assocAfter >= 0 /\ elapsed >= assocAfter * WIFI_POLL_DELAY_MS THEN elapsed
    ELSE IF ~(elapsed < WIFI_CONNECT_TIMEOUT_MS) THEN elapsed
    ELSE JoinWait(elapsed + WIFI_POLL_DELAY_MS, assocAfter)

\* WiFi.status() == WL_CONNECTED after the while loop
JoinAssociated(assocAfter) ==
    assocAfter >= 0 /\ JoinWait(0, assocAfter) >= assocAfter * WIFI_POLL_DELAY_MS


\* -------------------------------------------------------------------- state
VARIABLES
    ctx,                  \* "setup" or "loop": the top-level function running
    pc,                   \* the place in the code
    now,                  \* ms since boot
    pChar,                \* pWiFiSSIDChar, pWiFiPasswordChar, pWiFiAPEnableChar, pWiFiAPStateChar
    bleConnected,         \* pClient->isConnected()
    addrStatic,           \* static NimBLEAddress addr of scanForGoPro (0: not initialised)
    pGoProAddress,        \* the pointer scanForGoPro returned (0: nullptr)
    goProSSID,
    goProPassword,
    wifiAssoc,            \* WiFi.status() == WL_CONNECTED
    staConfigured,        \* WiFi.begin was called and WiFi.disconnect was not since
    wasConnected,         \* static bool of loop()
    lastReconnectAttempt, \* static unsigned long of loop()
    lastSync,             \* static unsigned long of loop()
    isConnected,          \* local of loop()
    polls,                \* health polls modelled one by one since boot
    h                     \* history, read by the properties only (see NoHistory)

prog ==
    <<ctx, pc, now, pChar, bleConnected, addrStatic, pGoProAddress, goProSSID,
      goProPassword, wifiAssoc, staConfigured, wasConnected, lastReconnectAttempt,
      lastSync, isConnected>>

vars == <<prog, polls, h>>

\* The history of one attempt (initial setup, or one iteration of loop()):
\*   prevSeen        the last observation of the WiFi status before the health
\*                   poll of this iteration, by the previous poll or by a join
\*                   after it: "none", "up", "down"
\*   thisPoll        what the health poll of this iteration observed
\*   alerted         this iteration printed the alert
\*   iterApplies     HTTP requests since the last health poll (since boot in setup)
\*   iterApplied     of these, the ones answered 200 or 204
\*   iterBeeps       beep() calls since the last health poll (since boot in setup)
\*   applyResult     outcome of the last apply of this attempt: "none", "ok", "fail"
\*   periodicInvoked the periodic branch of this iteration called setGoProDateTime
\*   stageFailed     the stage that returned failure: "none" or its name
\*   stagesRun       the stages executed in this attempt, in order
\*   valuesRead      what the credential reads of this attempt returned, in order
\*   apSeen          a poll of waitForAPMode() in this attempt read a value of 3
\*                   or more
\*   unit            reconnection unit of this iteration: "none", "running", "ok", "failed"
\*   unitStart       time the last reconnection unit started (-1: none yet)
\*   sincePrevUnit   at a unit's start: time since the previous unit's start (-1: none)
\*   lastSuccessAt   time of the most recent successful apply (-1: none yet)
\*   recordedAt      time lastSync was last assigned (-1: not yet)
\*   sinceRecorded   at the periodic test: time since recordedAt (-1: none)
\*   lastSyncAtPoll  lastSync at the health poll of this iteration
\*   sinceSuccess    at the periodic test of this iteration: time since the most
\*                   recent successful apply (-1: test not reached, or no success)
\*   failedAt        time at which stageFailed was set (-1: none)
\*   last            the last operation, with its inputs and result
NoHistory ==
    [ prevSeen |-> "none", thisPoll |-> "none", alerted |-> FALSE, iterApplies |-> 0,
      iterApplied |-> 0, iterBeeps |-> 0,
      applyResult |-> "none", periodicInvoked |-> FALSE, stageFailed |-> "none",
      stagesRun |-> <<>>, valuesRead |-> <<>>, apSeen |-> FALSE, unit |-> "none", unitStart |-> -1, sincePrevUnit |-> -1,
      lastSuccessAt |-> -1, lastSyncAtPoll |-> 0, sinceSuccess |-> -1,
      recordedAt |-> -1, sinceRecorded |-> -1,
      failedAt |-> -1,
      last |-> [op |-> "reset"] ]

\* the state after reset: globals and function statics hold their initialisers
Init ==
    /\ ctx = "setup"
    /\ pc = "boot"
    /\ now = 0
    /\ pChar = [c \in Required |-> Null]
    /\ bleConnected = FALSE
    /\ addrStatic = 0
    /\ pGoProAddress = 0
    /\ goProSSID = ""
    /\ goProPassword = ""
    /\ wifiAssoc = FALSE
    /\ staConfigured = FALSE
    /\ wasConnected = TRUE
    /\ lastReconnectAttempt = 0
    /\ lastSync = 0
    /\ isConnected = FALSE
    /\ polls = 0
    /\ h = NoHistory

\* ESP.restart(), and the reboot after a panic: every variable is re-initialised
Reboot ==
    /\ ctx' = "setup"
    /\ pc' = "boot"
    /\ now' = 0
    /\ pChar' = [c \in Required |-> Null]
    /\ bleConnected' = FALSE
    /\ addrStatic' = 0
    /\ pGoProAddress' = 0
    /\ goProSSID' = ""
    /\ goProPassword' = ""
    /\ wifiAssoc' = FALSE
    /\ staConfigured' = FALSE
    /\ wasConnected' = TRUE
    /\ lastReconnectAttempt' = 0
    /\ lastSync' = 0
    /\ isConnected' = FALSE
    /\ polls' = 0
    /\ h' = NoHistory

\* ------------------------------------------------------ the callers' branches
\* A setup() that goes on to the time apply when its join failed; the
\* fail-fast property of setup() must tell it from OnStageFailure.
OnStageFailureSetupGoesOn(c, stage) ==
    IF c = "setup" THEN (IF stage = "join" THEN "apply" ELSE "restart_delay")
    ELSE "periodic"

\* A reconnectToGoPro() whose failure branches fall through to the time apply
\* of loop(); the fail-soft property of loop() must tell it from OnStageFailure.
OnStageFailureLoopApplies(c, stage) ==
    IF c = "setup" THEN "restart_delay" ELSE "apply"

\* What the caller does when a stage returns failure: setup() waits and
\* restarts the chip, reconnectToGoPro() returns false to loop(), which goes on
\* to its periodic-sync test
OnStageFailure(c, stage) == IF c = "setup" THEN "restart_delay" ELSE "periodic"

\* The failure branches that call pClient->disconnect()
DisconnectsOnFailure(stage) == stage \in {"ssid", "pwd", "enable", "wait"}

\* A setup() that restarts on a failed apply, as it does for every other stage.
AfterSetupApplyFailFast(ok) == IF ok THEN "poll" ELSE "restart_delay"

\* setup() after setGoProDateTime(): both branches fall through to the end of
\* setup(), and loop() starts
AfterSetupApply(ok) == "poll"

\* A gate that opens for the first unit only: a cap on the retries.
ReconnectGateFirstOnly(conn, m, lastAttempt) ==
    ~conn /\ lastAttempt = 0 /\ Elapsed(m, lastAttempt) > RECONNECT_COOLDOWN_MS

\* A gate without the cool-down test.
ReconnectGateNoCooldown(conn, m, lastAttempt) == ~conn

\* if (!isConnected && (millis() - lastReconnectAttempt > 30000))
ReconnectGate(conn, m, lastAttempt) ==
    ~conn /\ Elapsed(m, lastAttempt) > RECONNECT_COOLDOWN_MS

\* A periodic test that reads WiFi.status() again.
StatusReadAgain(sampled, current) == current

\* isConnected is a local of loop(), assigned once at the top of the iteration:
\* the periodic test sees what the health poll saw
StatusAtPeriodicTest(sampled, current) == sampled

\* if (isConnected && (millis() - lastSync > 3600000))
PeriodicGate(conn, m, sync) == conn /\ Elapsed(m, sync) > RESYNC_PERIOD_MS

\* A timer that is reset by a failed apply too.
SyncTimerAlwaysReset(ok, m, sync) == m

\* lastSync = millis() in the success branch of an apply, nothing in the other
SyncTimerAfterApply(ok, m, sync) == IF ok THEN m ELSE sync

\* if (wasConnected && !isConnected): the alert is printed
AlertEdge(was, conn) == was /\ ~conn

\* wasConnected after the edge test (it is set to false with the alert)
WasConnectedAfterPoll(was, conn) == IF AlertEdge(was, conn) THEN FALSE ELSE was

\* history of a stage that returned: ok or failed at time t
HStage(stage, ok, t, rec) ==
    [h EXCEPT !.stagesRun = Append(@, stage),
              !.stageFailed = IF ok THEN @ ELSE stage,
              !.failedAt = IF ok THEN @ ELSE t,
              !.apSeen = IF stage = "wait" THEN rec.first # 0 ELSE @,
              !.valuesRead = IF stage \in {"ssid", "pwd"} /\ rec.out.kind = "ok"
                             THEN Append(@, rec.out.val) ELSE @,
              !.unit = IF ~ok /\ ctx = "loop" THEN "failed" ELSE @,
              !.last = rec]


\* ------------------------------------------------------------------- stages
\* setup(), lines 358-397: Serial and RTC initialisation
SetupBegin ==
    /\ pc = "boot"
    /\ \E rtcOK \in BOOLEAN :
        /\ now' = now + SETTLE_DELAY_MS
        /\ pc' = IF rtcOK THEN "scan" ELSE OnStageFailure(ctx, "rtc")
        /\ h' = HStage("rtc", rtcOK, now', [op |-> "rtc", ok |-> rtcOK])
    /\ UNCHANGED <<ctx, pChar, bleConnected, addrStatic, pGoProAddress, goProSSID,
                   goProPassword, wifiAssoc, staConfigured, wasConnected,
                   lastReconnectAttempt, lastSync, isConnected, polls>>

\* the address of the first device of a scan whose advertised name has the
\* prefix "GoPro", 0 when the scan has none (stated on the scan, not on the code)
FirstPrefixedAddr(results) ==
    LET hits == {i \in 1..Len(results) :
                    /\ Len(results[i].name) >= 5
                    /\ \A k \in 1..5 : results[i].name[k] = <<"G", "o", "P", "r", "o">>[k]}
    IN  IF hits = {} THEN 0
        ELSE results[CHOOSE i \in hits : \A j \in hits : i <= j].addr

\* scanForGoPro(), called by setup() and by reconnectToGoPro()
ScanForGoPro ==
    /\ pc = "scan"
    /\ \E results \in ScanResults :
        LET r == ScanForGoProResult(results, addrStatic)
        IN  /\ now' = now + SCAN_TIME_SECONDS * 1000
            /\ addrStatic' = r.addr
            /\ pGoProAddress' = r.ret
            /\ pc' = IF r.ret # 0 THEN "connect" ELSE OnStageFailure(ctx, "scan")
            /\ h' = HStage("scan", r.ret # 0, now',
                           [op |-> "scan", first |-> FirstPrefixedAddr(results),
                            ret |-> r.ret])
    /\ UNCHANGED <<ctx, pChar, bleConnected, goProSSID, goProPassword, wifiAssoc,
                   staConfigured, wasConnected, lastReconnectAttempt, lastSync,
                   isConnected, polls>>

\* the enumerations getServices(true) / getCharacteristics(true) can return:
\* the complete one, or one that lacks the characteristics of a set of AbsentSets
Enumerations ==
    {SelectSeq(FullEnumeration, LAMBDA c : c \notin absent) : absent \in AbsentSets}

\* what the BLE stack can answer to one connectToGoPro(): no link, a link with
\* no services, or a link and an enumeration
ConnectInputs ==
    {[linkOK |-> FALSE, hasServices |-> FALSE, chars |-> <<>>],
     [linkOK |-> TRUE, hasServices |-> FALSE, chars |-> <<>>]}
        \cup {[linkOK |-> TRUE, hasServices |-> TRUE, chars |-> cs] : cs \in Enumerations}

\* connectToGoPro(): [ok, p: the four globals, ble: the link is up,
\* missing: the globals reported MISSING]
ConnectToGoProResult(p, linkOK, hasServices, chars) ==
    IF ~linkOK THEN [ok |-> FALSE, p |-> p, ble |-> FALSE, missing |-> {}]
    ELSE IF ~hasServices
         THEN [ok |-> FALSE, p |-> RefreshHandles(p), ble |-> TRUE, missing |-> {}]
    ELSE LET q == BindAll(RefreshHandles(p), chars, 1)
         IN  [ok |-> MissingHandles(q) = {}, p |-> q, ble |-> TRUE,
              missing |-> MissingHandles(q)]

\* connectToGoPro(pGoProAddress); setup() then waits 500 ms before the reads
ConnectToGoProOn(inputs) ==
    /\ pc = "connect"
    /\ \E in \in inputs :
        LET linkOK == in.linkOK
            hasServices == in.hasServices
            chars == in.chars
            r == ConnectToGoProResult(pChar, linkOK, hasServices, chars)
        IN  /\ pChar' = r.p
            /\ bleConnected' = r.ble
            /\ now' = IF r.ok /\ ctx = "setup" THEN now + STABILIZE_DELAY_MS ELSE now
            /\ pc' = IF r.ok THEN "ssid" ELSE OnStageFailure(ctx, "connect")
            /\ h' = HStage("connect", r.ok, now',
                           [op |-> "connect", linkOK |-> linkOK,
                            enumerated |-> linkOK /\ hasServices,
                            ids |-> IF linkOK /\ hasServices
                                    THEN {chars[i] : i \in 1..Len(chars)} \cap Required
                                    ELSE {},
                            chars |-> chars,
                            bound |-> BindPositions([c \in Required |-> 0], chars, 1),
                            ok |-> r.ok, missing |-> r.missing])
    /\ UNCHANGED <<ctx, addrStatic, pGoProAddress, goProSSID, goProPassword,
                   wifiAssoc, staConfigured, wasConnected, lastReconnectAttempt,
                   lastSync, isConnected, polls>>

ConnectToGoPro == ConnectToGoProOn(ConnectInputs)

\* What a read through a characteristic pointer can do.  Through nullptr the
\* function returns false before the read; a live characteristic is unreadable,
\* reads empty or reads its value; a pointer to a deleted object is undefined
\* behaviour: any of these, a garbage value, or a panic.
ReadOutcomes(handle, value) ==
    CASE handle = Null -> {[kind |-> "fail", val |-> ""]}
      [] handle = Live -> {[kind |-> "fail", val |-> ""], [kind |-> "ok", val |-> value],
                           [kind |-> "ok", val |-> EmptyValue]}
      [] OTHER -> {[kind |-> "fail", val |-> ""], [kind |-> "ok", val |-> value],
                   [kind |-> "ok", val |-> EmptyValue],
                   [kind |-> "ok", val |-> Garbage], [kind |-> "panic", val |-> ""]}

\* A read that accepts whatever readValue() returned.
ReadAcceptsAnyValue(out) == out.kind = "ok"

\* std::string v = p->readValue(); if (v.length() > 0) { ...; return true; }
ReadReturnsTrue(out) == out.kind = "ok" /\ Len(out.val) > 0

\* the same for the write of the enable byte
WriteOutcomes(handle) ==
    CASE handle = Null -> {"fail"}
      [] handle = Live -> {"fail", "ok"}
      [] OTHER -> {"fail", "ok", "panic"}

\* a stage returned false: the caller's failure branch
StageFails(stage, t, rec) ==
    /\ pc' = OnStageFailure(ctx, stage)
    /\ bleConnected' = IF DisconnectsOnFailure(stage) THEN FALSE ELSE bleConnected
    /\ h' = HStage(stage, FALSE, t, rec)

\* the program dereferenced a deleted object and the chip panics
Panics(stage, rec) ==
    /\ pc' = "panic"
    /\ h' = [h EXCEPT !.stagesRun = Append(@, stage), !.last = rec]
    /\ UNCHANGED bleConnected

\* getWiFiSSID()
GetWiFiSSID ==
    /\ pc = "ssid"
    /\ \E out \in ReadOutcomes(pChar["ssid"], SsidValue) :
        LET rec == [op |-> "ssid", out |-> out, handle |-> pChar["ssid"]]
        IN  CASE ReadReturnsTrue(out) ->
                    /\ goProSSID' = out.val
                    /\ pc' = "pwd"
                    /\ h' = HStage("ssid", TRUE, now, rec)
                    /\ UNCHANGED bleConnected
              [] out.kind # "panic" ->
                    /\ StageFails("ssid", now, rec)
                    /\ UNCHANGED goProSSID
              [] OTHER ->
                    /\ Panics("ssid", rec)
                    /\ UNCHANGED goProSSID
    /\ UNCHANGED <<ctx, now, pChar, addrStatic, pGoProAddress, goProPassword,
                   wifiAssoc, staConfigured, wasConnected, lastReconnectAttempt,
                   lastSync, isConnected, polls>>

\* getWiFiPassword(), evaluated only when getWiFiSSID() returned true
GetWiFiPassword ==
    /\ pc = "pwd"
    /\ \E out \in ReadOutcomes(pChar["pwd"], PwdValue) :
        LET rec == [op |-> "pwd", out |-> out, handle |-> pChar["pwd"]]
        IN  CASE ReadReturnsTrue(out) ->
                    /\ goProPassword' = out.val
                    /\ pc' = "enable"
                    /\ h' = HStage("pwd", TRUE, now, rec)
                    /\ UNCHANGED bleConnected
              [] out.kind # "panic" ->
                    /\ StageFails("pwd", now, rec)
                    /\ UNCHANGED goProPassword
              [] OTHER ->
                    /\ Panics("pwd", rec)
                    /\ UNCHANGED goProPassword
    /\ UNCHANGED <<ctx, now, pChar, addrStatic, pGoProAddress, goProSSID,
                   wifiAssoc, staConfigured, wasConnected, lastReconnectAttempt,
                   lastSync, isConnected, polls>>

\* enableWiFiAP(); on success the caller enters waitForAPMode()
EnableWiFiAP ==
    /\ pc = "enable"
    /\ \E out \in WriteOutcomes(pChar["enable"]) :
        LET rec == [op |-> "enable", out |-> out, handle |-> pChar["enable"]]
        IN  CASE out = "ok" ->
                    /\ now' = now + SETTLE_DELAY_MS
                    /\ pc' = "wait"
                    /\ h' = HStage("enable", TRUE, now', rec)
                    /\ UNCHANGED bleConnected
              [] out = "fail" ->
                    /\ StageFails("enable", now, rec)
                    /\ UNCHANGED now
              [] OTHER ->
                    /\ Panics("enable", rec)
                    /\ UNCHANGED now
    /\ UNCHANGED <<ctx, pChar, addrStatic, pGoProAddress, goProSSID, goProPassword,
                   wifiAssoc, staConfigured, wasConnected, lastReconnectAttempt,
                   lastSync, isConnected, polls>>


RECURSIVE WaitLoop(_, _, _)
\* waitForAPMode(): for (attempt = 1; attempt <= maxAttempts; attempt++), with
\* checkAPModeStatus() and delay(200) in its body
WaitLoop(answers, attempt, elapsed) ==
    IF ~(attempt <= AP_READY_POLL_ATTEMPTS)
    THEN [ready |-> FALSE, polls |-> attempt - 1, elapsed |-> elapsed]
    ELSE IF CheckAPModeStatus(answers[attempt])
         THEN [ready |-> TRUE, polls |-> attempt, elapsed |-> elapsed]
         ELSE WaitLoop(answers, attempt + 1, elapsed + AP_POLL_DELAY_MS)

\* what checkAPModeStatus() reads: nothing through nullptr
AnswersThrough(handle, answers) ==
    IF handle = Null
    THEN [i \in 1..AP_READY_POLL_ATTEMPTS |-> [kind |-> "unreadable", byte |-> 0]]
    ELSE answers

\* the first poll whose answer is a value that, as an unsigned byte, is 3 or
\* more; 0 when there is none (stated on the answers, not on the code)
FirstBroadcasting(answers) ==
    LET hits == {i \in DOMAIN answers :
                    answers[i].kind = "byte" /\ (answers[i].byte + 256) % 256 >= 3}
    IN  IF hits = {} THEN 0 ELSE CHOOSE i \in hits : \A j \in hits : i <= j

\* history of one waitForAPMode()
HWaitRec(answers, r) ==
    [op |-> "wait",
     first |-> FirstBroadcasting(answers),
     value |-> IF FirstBroadcasting(answers) = 0 THEN 0
               ELSE answers[FirstBroadcasting(answers)].byte,
     ready |-> r.ready,
     polls |-> r.polls]

\* waitForAPMode() on a camera of the set cameras.  Through a pointer to a
\* deleted object the reads are undefined behaviour: any answers, or a panic.
WaitForAPModeOn(cameras) ==
    /\ pc = "wait"
    /\ \/ \E given \in cameras :
            LET answers == AnswersThrough(pChar["state"], given)
                r == WaitLoop(answers, 1, 0)
            IN  /\ now' = now + r.elapsed
                /\ IF r.ready
                   THEN /\ pc' = "handover"
                        /\ h' = HStage("wait", TRUE, now', HWaitRec(answers, r))
                        /\ UNCHANGED bleConnected
                   ELSE StageFails("wait", now', HWaitRec(answers, r))
       \/ /\ pChar["state"] = Stale
          /\ Panics("wait", [op |-> "wait", ready |-> FALSE, polls |-> 1])
          /\ UNCHANGED now
    /\ UNCHANGED <<ctx, pChar, addrStatic, pGoProAddress, goProSSID, goProPassword,
                   wifiAssoc, staConfigured, wasConnected, lastReconnectAttempt,
                   lastSync, isConnected, polls>>

\* waitForAPMode(), called by setup() and by reconnectToGoPro()
WaitForAPMode == WaitForAPModeOn(SomeApAnswers)

\* A handover that keeps the BLE link.
LinkKeptAtHandover(ble) == ble

\* pClient->disconnect() before the join
LinkAfterHandover(ble) == FALSE

\* pClient->disconnect(); delay(1000); after the AP became ready
Handover ==
    /\ pc = "handover"
    /\ bleConnected' = LinkAfterHandover(bleConnected)
    /\ now' = now + SETTLE_DELAY_MS
    /\ pc' = "join"
    /\ h' = [h EXCEPT !.stagesRun = Append(@, "handover"),
                      !.last = [op |-> "handover"]]
    /\ UNCHANGED <<ctx, pChar, addrStatic, pGoProAddress, goProSSID, goProPassword,
                   wifiAssoc, staConfigured, wasConnected, lastReconnectAttempt,
                   lastSync, isConnected, polls>>

\* when the station associates: at the first status poll, or never
JoinChoices == {0, -1}

\* connectToGoProWiFi(); in loop() a true result sets wasConnected
ConnectToGoProWiFi ==
    /\ pc = "join"
    /\ \E a \in JoinChoices :
        LET ok == JoinAssociated(a)
        IN  /\ staConfigured' = TRUE
            /\ wifiAssoc' = ok
            /\ now' = now + JoinWait(0, a)
            /\ pc' = IF ok THEN "apply" ELSE OnStageFailure(ctx, "join")
            /\ wasConnected' = IF ok /\ ctx = "loop" THEN TRUE ELSE wasConnected
            /\ h' = [HStage("join", ok, now', [op |-> "join", assocAfter |-> a, ok |-> ok])
                        EXCEPT !.unit = IF ctx # "loop" THEN @
                                        ELSE IF ok THEN "ok" ELSE "failed"]
    /\ UNCHANGED <<ctx, pChar, bleConnected, addrStatic, pGoProAddress, goProSSID,
                   goProPassword, lastReconnectAttempt, lastSync, isConnected,
                   polls>>

\* rtc.now(): year, month, day, hour, minute, second
Snapshot(y, mo, d, hh, mi, ss) ==
    [year |-> y, month |-> mo, day |-> d, hour |-> hh, minute |-> mi, second |-> ss]

\* 2024-03-09 14:05:30
ExampleSnapshot == Snapshot(2024, 3, 9, 14, 5, 30)

\* what the RTC reads in the orchestration runs
RtcSnapshots == {ExampleSnapshot}

\* every value of each field in its calendar range (years 2000..2099 of the
\* DS3231), the other fields as in the example, and the corners of the ranges
AllSnapshots ==
    {[ExampleSnapshot EXCEPT !.year = y] : y \in 2000..2099}
        \cup {[ExampleSnapshot EXCEPT !.month = v] : v \in 1..12}
        \cup {[ExampleSnapshot EXCEPT !.day = v] : v \in 1..31}
        \cup {[ExampleSnapshot EXCEPT !.hour = v] : v \in 0..23}
        \cup {[ExampleSnapshot EXCEPT !.minute = v] : v \in 0..59}
        \cup {[ExampleSnapshot EXCEPT !.second = v] : v \in 0..59}
        \cup {Snapshot(y, mo, d, hh, mi, ss) :
                    y \in {2000, 2099}, mo \in {1, 12}, d \in {1, 31},
                    hh \in {0, 23}, mi \in {0, 59}, ss \in {0, 59}}

\* the digits of the conversion x
HexDigits ==
    <<"0", "1", "2", "3", "4", "5", "6", "7", "8", "9", "a", "b", "c", "d", "e", "f">>

RECURSIVE HexOf(_)
\* %x: the hexadecimal digits of v, most significant first
HexOf(v) ==
    IF v < 16 THEN <<HexDigits[v + 1]>>
    ELSE Append(HexOf(v \div 16), HexDigits[(v % 16) + 1])

\* A conversion without the zero flag and width.
PadNone(digits) == digits

\* the flag 0 and the width 2 of %02x: zeros on the left up to two characters
PadZero2(digits) == IF Len(digits) < 2 THEN <<"0">> \o digits ELSE digits

\* %%%02x
HexGroup(v) == <<"%">> \o PadZero2(HexOf(v))

\* the text snprintf writes after "?p="
DateTimeParam(t) ==
    HexGroup(t.year % 100) \o HexGroup(t.month) \o HexGroup(t.day)
        \o HexGroup(t.hour) \o HexGroup(t.minute) \o HexGroup(t.second)

\* A caller that beeps after every apply.
BeepsAfterEveryApply(ok) == 1

\* beep() calls of the caller of setGoProDateTime(): one in its success branch,
\* none in the other
BeepsAfterApply(ok) == IF ok THEN 1 ELSE 0

\* history of one setGoProDateTime() call that returned at time t
HApply(code, t, periodic, hist, snap) ==
    [hist EXCEPT !.iterApplies = @ + 1,
                 !.iterApplied = @ + (IF HttpApplied(code) THEN 1 ELSE 0),
                 !.iterBeeps = @ + BeepsAfterApply(HttpApplied(code)),
              !.applyResult = IF HttpApplied(code) THEN "ok" ELSE "fail",
              !.periodicInvoked = @ \/ periodic,
              !.lastSuccessAt = IF HttpApplied(code) THEN t ELSE @,
              !.stagesRun = Append(@, "apply"),
              !.last = [op |-> "apply", code |-> code, ok |-> HttpApplied(code),
                           snap |-> snap, param |-> DateTimeParam(snap)]]

\* history of lastSync = millis() in the success branch of an apply of loop()
HRecord(hist, ok, t) == [hist EXCEPT !.recordedAt = IF ok THEN t ELSE @]

\* the time an apply and its caller's branch take: delay(BEEP_DURATION_MS) in
\* each beep()
ApplyDuration(ok) == BeepsAfterApply(ok) * BEEP_DURATION_MS

\* setup(), lines 468-481: delay(1000), setGoProDateTime(), beep() on success;
\* setup() returns and loop() starts
SetupApplyOn(snapshots) ==
    /\ pc = "apply"
    /\ ctx = "setup"
    /\ \E code \in HttpCodes, snap \in snapshots :
        /\ now' = now + SETTLE_DELAY_MS + ApplyDuration(HttpApplied(code))
        /\ pc' = AfterSetupApply(HttpApplied(code))
        /\ ctx' = IF pc' = "poll" THEN "loop" ELSE ctx
        /\ h' = HApply(code, now', FALSE, h, snap)
    /\ UNCHANGED <<pChar, bleConnected, addrStatic, pGoProAddress, goProSSID,
                   goProPassword, wifiAssoc, staConfigured, wasConnected,
                   lastReconnectAttempt, lastSync, isConnected, polls>>

SetupApply == SetupApplyOn(RtcSnapshots)

\* delay(30000) of a failure branch of setup()
RestartDelay ==
    /\ pc = "restart_delay"
    /\ now' = now + RESTART_DELAY_MS
    /\ pc' = "restart"
    /\ h' = [h EXCEPT !.last = [op |-> "delay"]]
    /\ UNCHANGED <<ctx, pChar, bleConnected, addrStatic, pGoProAddress, goProSSID,
                   goProPassword, wifiAssoc, staConfigured, wasConnected,
                   lastReconnectAttempt, lastSync, isConnected, polls>>

\* ESP.restart()
Restart ==
    /\ pc = "restart"
    /\ Reboot

\* the panic handler resets the chip
PanicReset ==
    /\ pc = "panic"
    /\ Reboot

\* --------------------------------------------------------------------- loop
\* The WiFi stack loses the association (the camera powers off, moves away).
\* loop() reads the status only at its health poll, so the event is placed
\* between two iterations.
WiFiDrops ==
    /\ pc = "poll"
    /\ wifiAssoc
    /\ wifiAssoc' = FALSE
    /\ UNCHANGED <<ctx, pc, now, pChar, bleConnected, addrStatic, pGoProAddress,
                   goProSSID, goProPassword, staConfigured, wasConnected,
                   lastReconnectAttempt, lastSync, isConnected, polls, h>>

\* The WiFi stack of a configured station re-associates by itself.
WiFiReassociates ==
    /\ pc = "poll"
    /\ ~wifiAssoc
    /\ staConfigured
    /\ wifiAssoc' = TRUE
    /\ UNCHANGED <<ctx, pc, now, pChar, bleConnected, addrStatic, pGoProAddress,
                   goProSSID, goProPassword, staConfigured, wasConnected,
                   lastReconnectAttempt, lastSync, isConnected, polls, h>>

\* the last observation of the WiFi status: a successful join of setup() or of
\* the reconnection unit of this iteration, else the health poll
LastSeen ==
    IF h.unit = "ok" \/ (h.stagesRun # <<>> /\ h.stagesRun[1] = "rtc") THEN "up"
    ELSE h.thisPoll

\* history at the start of an iteration of loop()
HPoll(prev, alert, observed) ==
    [h EXCEPT !.prevSeen = prev,
              !.thisPoll = IF observed THEN "up" ELSE "down",
              !.alerted = alert,
              !.iterApplies = 0,
              !.iterApplied = 0,
              !.iterBeeps = 0,
              !.applyResult = "none",
              !.periodicInvoked = FALSE,
              !.stageFailed = "none",
              !.stagesRun = <<>>,
              !.valuesRead = <<>>,
              !.apSeen = FALSE,
              !.unit = "none",
              !.sincePrevUnit = -1,
              !.lastSyncAtPoll = lastSync,
              !.sinceSuccess = -1,
              !.sinceRecorded = -1,
              !.failedAt = -1,
              !.last = [op |-> "poll"]]

\* loop(), lines 551-561: sample the status, detect the disconnect
LoopPoll ==
    /\ pc = "poll"
    /\ polls < MaxPolls
    /\ isConnected' = wifiAssoc
    /\ wasConnected' = WasConnectedAfterPoll(wasConnected, wifiAssoc)
    /\ h' = HPoll(LastSeen, AlertEdge(wasConnected, wifiAssoc), wifiAssoc)
    /\ polls' = polls + 1
    /\ pc' = "gate"
    /\ UNCHANGED <<ctx, now, pChar, bleConnected, addrStatic, pGoProAddress, goProSSID,
                   goProPassword, wifiAssoc, staConfigured, lastReconnectAttempt,
                   lastSync>>

\* loop(), lines 563-565: the reconnection gate
LoopGate ==
    /\ pc = "gate"
    /\ IF ReconnectGate(isConnected, Millis(now), lastReconnectAttempt)
       THEN /\ lastReconnectAttempt' = Millis(now)
            /\ pc' = "reconnect"
            /\ h' = [h EXCEPT !.unit = "running",
                              !.sincePrevUnit = IF h.unitStart = -1 THEN -1
                                                ELSE now - h.unitStart,
                              !.unitStart = now,
                              !.last = [op |-> "gate", open |-> TRUE]]
       ELSE /\ pc' = "periodic"
            /\ h' = [h EXCEPT !.last = [op |-> "gate", open |-> FALSE]]
            /\ UNCHANGED lastReconnectAttempt
    /\ UNCHANGED <<ctx, now, pChar, bleConnected, addrStatic, pGoProAddress, goProSSID,
                   goProPassword, wifiAssoc, staConfigured, wasConnected, lastSync,
                   isConnected, polls>>

\* reconnectToGoPro(), lines 487-492: drop both links, delay(2000)
ReconnectBegin ==
    /\ pc = "reconnect"
    /\ wifiAssoc' = FALSE
    /\ staConfigured' = FALSE
    /\ bleConnected' = FALSE
    /\ now' = now + RECONNECT_SETTLE_MS
    /\ pc' = "scan"
    /\ h' = [h EXCEPT !.last = [op |-> "reconnect"]]
    /\ UNCHANGED <<ctx, pChar, addrStatic, pGoProAddress, goProSSID, goProPassword,
                   wasConnected, lastReconnectAttempt, lastSync, isConnected,
                   polls>>

\* loop(), lines 570-578: the apply after a successful reconnection
ReconnectApply ==
    /\ pc = "apply"
    /\ ctx = "loop"
    /\ \E code \in HttpCodes, snap \in RtcSnapshots :
        /\ now' = now + ApplyDuration(HttpApplied(code))
        /\ lastSync' = SyncTimerAfterApply(HttpApplied(code), Millis(now'), lastSync)
        /\ h' = HRecord(HApply(code, now', FALSE, h, snap), HttpApplied(code), now')
    /\ pc' = "periodic"
    /\ UNCHANGED <<ctx, pChar, bleConnected, addrStatic, pGoProAddress, goProSSID,
                   goProPassword, wifiAssoc, staConfigured, wasConnected,
                   lastReconnectAttempt, isConnected, polls>>

\* history at the periodic test
HPeriodic ==
    [h EXCEPT !.sinceSuccess = IF h.lastSuccessAt = -1 THEN -1 ELSE now - h.lastSuccessAt,
              !.sinceRecorded = IF h.recordedAt = -1 THEN -1 ELSE now - h.recordedAt]

\* loop(), lines 584-594: the periodic sync
LoopPeriodic ==
    /\ pc = "periodic"
    /\ IF PeriodicGate(StatusAtPeriodicTest(isConnected, wifiAssoc), Millis(now), lastSync)
       THEN \E code \in HttpCodes, snap \in RtcSnapshots :
                /\ now' = now + ApplyDuration(HttpApplied(code))
                /\ lastSync' = SyncTimerAfterApply(HttpApplied(code), Millis(now'), lastSync)
                /\ h' = HRecord(HApply(code, now', TRUE, HPeriodic, snap),
                                 HttpApplied(code), now')
       ELSE /\ h' = [HPeriodic EXCEPT !.last = [op |-> "periodic"]]
            /\ UNCHANGED <<now, lastSync>>
    /\ pc' = "delay"
    /\ UNCHANGED <<ctx, pChar, bleConnected, addrStatic, pGoProAddress, goProSSID,
                   goProPassword, wifiAssoc, staConfigured, wasConnected,
                   lastReconnectAttempt, isConnected, polls>>

\* loop(), line 596: delay(1000); loop() returns and is called again
LoopDelay ==
    /\ pc = "delay"
    /\ now' = now + LOOP_DELAY_MS
    /\ pc' = "poll"
    /\ h' = [h EXCEPT !.last = [op |-> "loopdelay"]]
    /\ UNCHANGED <<ctx, pChar, bleConnected, addrStatic, pGoProAddress, goProSSID,
                   goProPassword, wifiAssoc, staConfigured, wasConnected,
                   lastReconnectAttempt, lastSync, isConnected, polls>>

\* The iterations of loop() from now on in which the status stays associated
\* and the periodic sync is not yet due: none of them changes anything but the
\* time.
IdleUpCount(m, sync) ==
    IF Elapsed(m, sync) > RESYNC_PERIOD_MS THEN 0
    ELSE (RESYNC_PERIOD_MS - Elapsed(m, sync)) \div LOOP_DELAY_MS + 1

\* The iterations of loop() from now on in which the status stays not
\* associated and the reconnection gate stays closed.
IdleDownCount(m, lastAttempt) ==
    IF Elapsed(m, lastAttempt) > RECONNECT_COOLDOWN_MS THEN 0
    ELSE (RECONNECT_COOLDOWN_MS - Elapsed(m, lastAttempt)) \div LOOP_DELAY_MS + 1

\* that many iterations of loop() at once, the status staying associated: each
\* samples it (no alert, gate not taken, sync not due) and delays 1000 ms
IdleWhileUp ==
    /\ pc = "poll"
    /\ wifiAssoc
    /\ IdleUpCount(Millis(now), lastSync) >= 2
    /\ now' = now + IdleUpCount(Millis(now), lastSync) * LOOP_DELAY_MS
    /\ isConnected' = TRUE
    /\ h' = [HPoll("up", FALSE, TRUE) EXCEPT !.last = [op |-> "idle"]]
    /\ UNCHANGED <<ctx, pc, pChar, bleConnected, addrStatic, pGoProAddress, goProSSID,
                   goProPassword, wifiAssoc, staConfigured, wasConnected,
                   lastReconnectAttempt, lastSync, polls>>

\* the same, the status staying not associated after its alert: each samples
\* it (no alert, gate closed, no sync) and delays 1000 ms
IdleWhileDown ==
    /\ pc = "poll"
    /\ ~wifiAssoc
    /\ ~wasConnected
    /\ IdleDownCount(Millis(now), lastReconnectAttempt) >= 2
    /\ now' = now + IdleDownCount(Millis(now), lastReconnectAttempt) * LOOP_DELAY_MS
    /\ isConnected' = FALSE
    /\ h' = [HPoll("down", FALSE, FALSE) EXCEPT !.last = [op |-> "idle"]]
    /\ UNCHANGED <<ctx, pc, pChar, bleConnected, addrStatic, pGoProAddress, goProSSID,
                   goProPassword, wifiAssoc, staConfigured, wasConnected,
                   lastReconnectAttempt, lastSync, polls>>

Next ==
    \/ SetupBegin
    \/ ScanForGoPro
    \/ ConnectToGoPro
    \/ GetWiFiSSID
    \/ GetWiFiPassword
    \/ EnableWiFiAP
    \/ WaitForAPMode
    \/ Handover
    \/ ConnectToGoProWiFi
    \/ SetupApply
    \/ RestartDelay
    \/ Restart
    \/ PanicReset
    \/ WiFiDrops
    \/ WiFiReassociates
    \/ LoopPoll
    \/ LoopGate
    \/ ReconnectBegin
    \/ ReconnectApply
    \/ LoopPeriodic
    \/ LoopDelay
    \/ IdleWhileUp
    \/ IdleWhileDown

Spec == Init /\ [][Next]_vars


\* The steps of the program itself: every action but the two events of the
\* WiFi stack
ProgramStep ==
    \/ SetupBegin \/ ScanForGoPro \/ ConnectToGoPro \/ GetWiFiSSID
    \/ GetWiFiPassword \/ EnableWiFiAP \/ WaitForAPMode \/ Handover
    \/ ConnectToGoProWiFi \/ SetupApply \/ RestartDelay \/ Restart
    \/ PanicReset \/ LoopPoll \/ LoopGate \/ ReconnectBegin \/ ReconnectApply
    \/ LoopPeriodic \/ LoopDelay \/ IdleWhileUp \/ IdleWhileDown

\* The program has one thread, and every call it makes returns (each wait in
\* the code has a timeout): it always takes its next step.
SpecLive == Spec /\ WF_vars(ProgramStep)

\* ---------------------------------------------- waitForAPMode() on its own
\* setup() enters waitForAPMode(): the state after rtc, scan, connect, the two
\* reads and the enable write all succeeded
AtWaitInSetup ==
    /\ ctx = "setup"
    /\ pc = "wait"
    /\ now = 12500
    /\ pChar = [c \in Required |-> Live]
    /\ bleConnected = TRUE
    /\ addrStatic = 2
    /\ pGoProAddress = 2
    /\ goProSSID = SsidValue
    /\ goProPassword = PwdValue
    /\ wifiAssoc = FALSE
    /\ staConfigured = FALSE
    /\ wasConnected = TRUE
    /\ lastReconnectAttempt = 0
    /\ lastSync = 0
    /\ isConnected = FALSE
    /\ polls = 0
    /\ h = [NoHistory EXCEPT
                !.stagesRun = <<"rtc", "scan", "connect", "ssid", "pwd", "enable">>,
                !.valuesRead = <<SsidValue, PwdValue>>,
                !.last = [op |-> "enable", handle |-> Live, out |-> "ok"]]

\* a reconnection unit enters waitForAPMode() with pWiFiAPStateChar left over
\* from the enumeration of setup(): the first health poll after an hour of
\* association saw the loss, and the enumeration of the unit had no AP-state
\* characteristic
AtWaitInUnit ==
    /\ ctx = "loop"
    /\ pc = "wait"
    /\ now = 3613300
    /\ pChar = [c \in Required |-> IF c = "state" THEN Stale ELSE Live]
    /\ bleConnected = TRUE
    /\ addrStatic = 2
    /\ pGoProAddress = 2
    /\ goProSSID = SsidValue
    /\ goProPassword = PwdValue
    /\ wifiAssoc = FALSE
    /\ staConfigured = FALSE
    /\ wasConnected = FALSE
    /\ lastReconnectAttempt = 3600300
    /\ lastSync = 0
    /\ isConnected = FALSE
    /\ polls = 1
    /\ h = [NoHistory EXCEPT
                !.prevSeen = "up", !.thisPoll = "down", !.alerted = TRUE,
                !.stagesRun = <<"scan", "connect", "ssid", "pwd", "enable">>,
                !.valuesRead = <<SsidValue, PwdValue>>,
                !.unit = "running", !.unitStart = 3600300,
                !.last = [op |-> "enable", handle |-> Live, out |-> "ok"]]

\* waitForAPMode() from these two states of Spec, against every camera
InitWait == AtWaitInSetup \/ AtWaitInUnit

NextWait == WaitForAPModeOn(AllApAnswers)

SpecWait == InitWait /\ [][NextWait]_vars

\* ------------------------------------------- setGoProDateTime() on its own
\* setup() calls setGoProDateTime(): the state after every stage up to the
\* join succeeded, the AP having been ready at the last poll of the budget
AtApplyInSetup ==
    /\ ctx = "setup"
    /\ pc = "apply"
    /\ now = 18300
    /\ pChar = [c \in Required |-> Live]
    /\ bleConnected = FALSE
    /\ addrStatic = 2
    /\ pGoProAddress = 2
    /\ goProSSID = SsidValue
    /\ goProPassword = PwdValue
    /\ wifiAssoc = TRUE
    /\ staConfigured = TRUE
    /\ wasConnected = TRUE
    /\ lastReconnectAttempt = 0
    /\ lastSync = 0
    /\ isConnected = FALSE
    /\ polls = 0
    /\ h = [NoHistory EXCEPT
                !.stagesRun = <<"rtc", "scan", "connect", "ssid", "pwd", "enable",
                                "wait", "handover", "join">>,
                !.valuesRead = <<SsidValue, PwdValue>>,
                !.apSeen = TRUE,
                !.last = [op |-> "join", assocAfter |-> 0, ok |-> TRUE]]

\* setGoProDateTime() from this state of Spec, at every time of AllSnapshots
InitEncode == AtApplyInSetup

NextEncode == SetupApplyOn(AllSnapshots)

SpecEncode == InitEncode /\ [][NextEncode]_vars

\* ------------------------------------------------- loop() across the wrap
\* loop() less than a second before millis() wraps: setup() succeeded, the
\* station stayed associated, the periodic sync succeeded each hour, the fourth
\* time at 14404100 ms, and 2371 idle iterations followed.  Polls are counted
\* from here.
AtPollBeforeWrap ==
    /\ ctx = "loop"
    /\ pc = "poll"
    /\ now = 16776300
    /\ pChar = [c \in Required |-> Live]
    /\ bleConnected = FALSE
    /\ addrStatic = 2
    /\ pGoProAddress = 2
    /\ goProSSID = SsidValue
    /\ goProPassword = PwdValue
    /\ wifiAssoc = TRUE
    /\ staConfigured = TRUE
    /\ wasConnected = TRUE
    /\ lastReconnectAttempt = 0
    /\ lastSync = 14404300
    /\ isConnected = TRUE
    /\ polls = 0
    /\ h = [NoHistory EXCEPT
                !.prevSeen = "up", !.thisPoll = "up",
                !.lastSuccessAt = 14404300, !.lastSyncAtPoll = 14404300,
                !.sinceSuccess = 2371000,
                !.recordedAt = 14404300, !.sinceRecorded = 2371000,
                !.last = [op |-> "loopdelay"]]

InitWrap == AtPollBeforeWrap

SpecWrap == InitWrap /\ [][Next]_vars

\* ------------------------------------------------ connectToGoPro() on its own
\* setup() calls connectToGoPro(): the state after the scan found the camera
AtConnectInSetup ==
    /\ ctx = "setup"
    /\ pc = "connect"
    /\ now = 11000
    /\ pChar = [c \in Required |-> Null]
    /\ bleConnected = FALSE
    /\ addrStatic = 2
    /\ pGoProAddress = 2
    /\ goProSSID = ""
    /\ goProPassword = ""
    /\ wifiAssoc = FALSE
    /\ staConfigured = FALSE
    /\ wasConnected = TRUE
    /\ lastReconnectAttempt = 0
    /\ lastSync = 0
    /\ isConnected = FALSE
    /\ polls = 0
    /\ h = [NoHistory EXCEPT
                !.stagesRun = <<"rtc", "scan">>,
                !.last = [op |-> "scan", first |-> 2, ret |-> 2]]

\* the most characteristics a modelled camera lists
MaxChars == 5

\* cameras that list any characteristics in any order, the same identifier
\* more than once included
AnyEnumerations == SeqsUpTo({"other"} \cup Required, MaxChars)

InitConnect == AtConnectInSetup

NextConnect ==
    ConnectToGoProOn({[linkOK |-> TRUE, hasServices |-> TRUE, chars |-> cs] :
                            cs \in AnyEnumerations})

SpecConnect == InitConnect /\ [][NextConnect]_vars

\* =============================================================== properties
\* the stages of one reconnection unit, in the order reconnectToGoPro() and
\* loop() execute them
UnitStages ==
    <<"scan", "connect", "ssid", "pwd", "enable", "wait", "handover", "join", "apply">>

IsPrefix(s, t) == Len(s) <= Len(t) /\ \A i \in 1..Len(s) : s[i] = t[i]

\* the history is still that of the initial setup of this boot
InSetupHistory == Len(h.stagesRun) > 0 /\ h.stagesRun[1] = "rtc"

\* C1: a failed time apply (an HTTP status other than 200/204, or a transport
\* failure) never leads to a restart or a terminal state: after a failed apply
\* of setup() the program is in Monitoring (loop(), at its health poll), and
\* after a failed periodic or post-reconnect apply it is still in loop(), on its
\* way to the next health poll.  loop() itself never reaches a restart.
C1_FailedApplyStaysInMonitoring ==
    /\ h.applyResult = "fail" => ctx = "loop" /\ pc \in {"poll", "periodic", "delay"}
    /\ ctx = "loop" => pc \notin {"restart_delay", "restart"}

\* setup() joined the network, its apply failed, and loop() is about to poll
C1_Witness ==
    /\ InSetupHistory
    /\ h.stagesRun[Len(h.stagesRun)] = "apply"
    /\ h.last.op = "apply" /\ ~h.last.ok
    /\ ctx = "loop" /\ pc = "poll"

\* C2: the starts of two consecutive reconnection units are more than the
\* cool-down window (30000 ms) apart, whatever the polls in between observed and
\* however long the previous unit took.
C2_UnitsRateLimited ==
    h.unit = "running" /\ h.sincePrevUnit # -1 => h.sincePrevUnit > RECONNECT_COOLDOWN_MS

\* a second reconnection unit starts, the previous one having failed at its scan
C2_Witness ==
    /\ pc = "reconnect"
    /\ h.sincePrevUnit # -1
    /\ h.sincePrevUnit < RECONNECT_COOLDOWN_MS + 2 * LOOP_DELAY_MS

\* C3: in setup(), a stage that fails (discovery, linking, credential read, AP
\* enable, AP polling, join; the RTC too) is the last stage executed; the
\* program waits 30000 ms and restarts; no time apply is sent and loop() is not
\* entered in that boot.
C3_SetupFailsFast ==
    /\ ctx = "setup" /\ h.stageFailed # "none" =>
            /\ pc \in {"restart_delay", "restart"}
            /\ h.stagesRun[Len(h.stagesRun)] = h.stageFailed
            /\ h.iterApplies = 0
            /\ pc = "restart" => now = h.failedAt + RESTART_DELAY_MS
    /\ ctx = "loop" /\ InSetupHistory => h.stageFailed = "none"
    /\ pc \in {"restart_delay", "restart"} => h.stageFailed # "none"

\* setup() failed at the join, waited, and is about to restart
C3_Witness ==
    /\ ctx = "setup" /\ pc = "restart"
    /\ h.stageFailed = "join"
    /\ h.stagesRun = <<"rtc", "scan", "connect", "ssid", "pwd", "enable", "wait",
                       "handover", "join">>

\* C4: waitForAPMode() returns true if and only if one of its at most 25
\* observations is a value of 3 or more; it then has made exactly the polls up
\* to the first such observation, whatever the observations before it were;
\* when none of the 25 is such a value it returns false after all 25 (the
\* caller's APTimeout branch), never true.
C4_ReadyIffBroadcastingSeen ==
    h.last.op = "wait" /\ pc # "panic" =>
        /\ h.last.ready <=> h.last.first # 0
        /\ h.last.ready => h.last.polls = h.last.first /\ pc = "handover"
        /\ ~h.last.ready =>
                /\ h.last.polls = AP_READY_POLL_ATTEMPTS
                /\ h.stageFailed = "wait"
                /\ pc = OnStageFailure(ctx, "wait")

\* the third observation is the first broadcasting one, with the value 4
C4_Witness ==
    /\ h.last.op = "wait" /\ pc = "handover"
    /\ h.last.first = 3 /\ h.last.value = 4
    /\ h.last.ready /\ h.last.polls = 3

\* C5: every connectToGoPro(), in setup() and in a reconnection unit, whose
\* enumeration lacks one of the four characteristics returns false, reports
\* exactly the characteristics absent from that enumeration as MISSING, and the
\* caller does not go on to the credential reads.
C5_ConnectFailsClosed ==
    h.last.op = "connect" /\ h.last.enumerated /\ h.last.ids # Required =>
        /\ ~h.last.ok
        /\ h.last.missing = Required \ h.last.ids
        /\ pc = OnStageFailure(ctx, "connect")

\* the same, for the connectToGoPro() of setup() only
C5_InSetup == ctx = "setup" => C5_ConnectFailsClosed

\* C6: every scanForGoPro(), of setup() and of a reconnection unit, returns the
\* address of the first device of its own scan whose name starts with "GoPro",
\* and nullptr exactly when the scan has no such device.
C6_DiscoverReturnsFirstOfOwnScan ==
    h.last.op = "scan" => h.last.ret = h.last.first

\* the same, for the scanForGoPro() of setup() only
C6_InSetup == ctx = "setup" => C6_DiscoverReturnsFirstOfOwnScan

\* C7: a health poll prints the alert if and only if it observes not-associated
\* and the observation before it was associated; every loss of association is
\* alerted once, also a loss after a re-association that no reconnection unit
\* made.
C7_AlertOnEveryLoss ==
    pc = "gate" => (h.alerted <=> h.thisPoll = "down" /\ h.prevSeen = "up")

\* what holds of the alert: it is printed exactly on the polls that observe
\* not-associated while wasConnected is set, and never twice without a
\* successful reconnection unit in between
C7_AlertNeedsLoss ==
    pc = "gate" =>
        /\ h.alerted => h.thisPoll = "down" /\ ~wasConnected
        /\ h.thisPoll = "down" /\ h.prevSeen = "down" => ~h.alerted

\* C9 as stated: after a fully successful reconnection unit the time apply is
\* invoked exactly once, and lastSync is the current time when loop() goes on.
C9_TimerAlwaysReset ==
    ctx = "loop" /\ h.unit = "ok" /\ pc = "periodic" =>
        h.iterApplies = 1 /\ lastSync = Millis(now)

\* C9: after a fully successful reconnection unit, setGoProDateTime() is
\* invoked exactly once before the next health poll; lastSync becomes the
\* current time if that apply succeeded and keeps its value if it failed.
C9_ApplyOnceTimerResetOnSuccess ==
    /\ ctx = "loop" /\ h.unit = "ok" => pc \in {"apply", "periodic", "delay", "poll"}
    /\ ctx = "loop" /\ h.unit = "ok" /\ pc = "apply" => h.iterApplies = 0
    /\ ctx = "loop" /\ h.unit = "ok" /\ pc # "apply" => h.iterApplies = 1
    /\ ctx = "loop" /\ h.unit = "ok" /\ pc = "periodic" =>
            /\ h.applyResult = "ok" => lastSync = Millis(now)
            /\ h.applyResult # "ok" => lastSync = h.lastSyncAtPoll

\* a reconnection unit succeeded and its time apply failed
C9_Witness ==
    /\ ctx = "loop" /\ h.unit = "ok" /\ pc = "periodic"
    /\ h.applyResult = "fail"
    /\ lastSync # Millis(now)

\* C10: a health poll that observes associated invokes the periodic apply if
\* and only if more than 3600000 ms have passed since the most recent
\* successful apply, that of setup() included; a poll that observes
\* not-associated does not invoke it.
C10_PeriodicIffHourSinceSuccess ==
    pc = "delay" =>
        /\ h.sinceSuccess # -1 =>
                (h.periodicInvoked <=>
                    h.thisPoll = "up" /\ h.sinceSuccess > RESYNC_PERIOD_MS)
        /\ h.thisPoll = "down" => ~h.periodicInvoked

\* C11: beep() is called exactly once for each time apply answered 200 or 204
\* (in setup(), after a reconnection, periodic), and not for an apply with
\* another outcome nor for anything else: in every attempt the number of
\* beeps is the number of successful applies.
C11_OneBeepPerSuccessfulApply ==
    /\ h.iterBeeps = h.iterApplied
    /\ h.iterApplied <= h.iterApplies
    /\ h.last.op = "apply" => (h.last.ok <=> h.last.code \in {200, 204})

\* a periodic apply answered 204, and its one beep
C11_Witness ==
    /\ pc = "delay" /\ h.periodicInvoked
    /\ h.last.op = "apply" /\ h.last.code = 204
    /\ h.iterBeeps = 1

\* C8: when a stage of a reconnection unit fails, loop() goes on to its periodic
\* test and its delay, without restart and without a time apply in that
\* iteration; a unit always executes its stages from discovery on, in order,
\* whatever the previous unit did.
C8_UnitFailsSoft ==
    /\ ctx = "loop" /\ h.stageFailed # "none" =>
            /\ pc \in {"periodic", "delay", "poll"}
            /\ h.unit = "failed"
            /\ h.iterApplies = 0
            /\ h.stagesRun[Len(h.stagesRun)] = h.stageFailed
    /\ ctx = "loop" /\ h.unit # "none" =>
            /\ IsPrefix(h.stagesRun, UnitStages)
            /\ pc = "scan" <=> h.unit = "running" /\ h.stagesRun = <<>> /\ h.last.op = "reconnect"

\* a unit failed, and the unit after it has run its discovery and is linking
C8_Witness ==
    /\ ctx = "loop" /\ pc = "connect"
    /\ h.sincePrevUnit # -1
    /\ h.stagesRun = <<"scan">>

\* the value of a lowercase hexadecimal digit
HexValue ==
    ("0" :> 0) @@ ("1" :> 1) @@ ("2" :> 2) @@ ("3" :> 3) @@ ("4" :> 4) @@ ("5" :> 5)
        @@ ("6" :> 6) @@ ("7" :> 7) @@ ("8" :> 8) @@ ("9" :> 9) @@ ("a" :> 10)
        @@ ("b" :> 11) @@ ("c" :> 12) @@ ("d" :> 13) @@ ("e" :> 14) @@ ("f" :> 15)

\* C12: for every time with its fields in their calendar ranges, the query
\* parameter is six groups for (year mod 100, month, day, hour, minute,
\* second) in this order, each a '%' and the two lowercase hexadecimal digits
\* of the value; for 2024-03-09 14:05:30 it is %18%03%09%0e%05%1e.
C12_ParamIsSixHexGroups ==
    h.last.op = "apply" =>
        LET t == h.last.snap
            p == h.last.param
            want == <<t.year % 100, t.month, t.day, t.hour, t.minute, t.second>>
        IN  /\ Len(p) = 18
            /\ \A g \in 1..6 :
                    /\ p[3 * g - 2] = "%"
                    /\ p[3 * g - 1] \in DOMAIN HexValue
                    /\ p[3 * g] \in DOMAIN HexValue
                    /\ 16 * HexValue[p[3 * g - 1]] + HexValue[p[3 * g]] = want[g]
            /\ t = Snapshot(2024, 3, 9, 14, 5, 30) =>
                    p = <<"%", "1", "8", "%", "0", "3", "%", "0", "9",
                          "%", "0", "e", "%", "0", "5", "%", "1", "e">>

\* the request for 2024-03-09 14:05:30 was sent
C12_Witness ==
    /\ h.last.op = "apply"
    /\ h.last.snap = Snapshot(2024, 3, 9, 14, 5, 30)
    /\ h.last.param = <<"%", "1", "8", "%", "0", "3", "%", "0", "9",
                        "%", "0", "e", "%", "0", "5", "%", "1", "e">>

\* the stages executed in this attempt
StagesDone == {h.stagesRun[i] : i \in 1..Len(h.stagesRun)}

\* C13: in setup() and in every reconnection unit, the BLE disconnect and the
\* WiFi join are reached only after a poll of waitForAPMode() in that same
\* attempt read a broadcasting value; what an earlier attempt read does not
\* count.
C13_JoinOnlyAfterOwnReadiness ==
    /\ pc \in {"handover", "join"} => h.apSeen
    /\ StagesDone \cap {"handover", "join"} # {} => h.apSeen
    /\ h.apSeen => "wait" \in StagesDone

\* a reconnection unit is about to join, its own polls having seen the AP ready
C13_Witness ==
    /\ ctx = "loop" /\ pc = "join" /\ h.unit = "running"
    /\ h.apSeen
    /\ h.stagesRun = <<"scan", "connect", "ssid", "pwd", "enable", "wait", "handover">>

\* the AP was ready in setup(), and a later unit whose polls never see it ready
\* stops at its wait stage
C13_NoReadinessCarriedOver ==
    /\ ctx = "loop" /\ h.stageFailed = "wait"
    /\ ~h.apSeen
    /\ "join" \notin StagesDone

\* C14: a characteristic pointer is read or written only if the enumeration of
\* the current BLE connection bound it; a pointer bound during an earlier
\* connection is never used by a later attempt.
C14_OnlyLiveHandlesUsed ==
    /\ h.last.op \in {"ssid", "pwd", "enable"} => h.last.handle # Stale
    /\ h.last.op = "wait" => pChar["state"] # Stale

\* the same, for setup() only
C14_InSetup == ctx = "setup" => C14_OnlyLiveHandlesUsed

\* C15: in setup() and in a reconnection unit the BLE link is disconnected
\* after the AP became ready and before the join starts; connectToGoPro() is
\* never called while the link is up, and connectToGoProWiFi() never while the
\* station is associated: one BLE connection and one association at most.
C15_OneLinkAtATime ==
    /\ pc = "join" => ~bleConnected /\ h.apSeen /\ ~wifiAssoc
    /\ pc = "connect" => ~bleConnected /\ ~wifiAssoc
    /\ pc \in {"scan", "connect", "ssid", "pwd", "enable", "wait", "handover"} => ~wifiAssoc
    /\ wifiAssoc => ~bleConnected

\* a reconnection unit has disconnected BLE and is about to join
C15_Witness ==
    /\ ctx = "loop" /\ pc = "join"
    /\ h.last.op = "handover"
    /\ ~bleConnected /\ ~wifiAssoc

\* the time since the start of the last reconnection unit, since boot when
\* there was none
SinceUnitStart == IF h.unitStart = -1 THEN now ELSE now - h.unitStart

\* C16: retries are not capped and the gate interval does not grow: a health
\* poll that observes not-associated more than 30000 ms after the start of the
\* last unit starts a unit, however many units failed before; after a failed
\* unit, another unit starts or a poll observes associated (unless the run
\* ends, at its last modelled poll, with the gate still closed); and every unit
\* that starts ends with a failed stage, with a panic, or associated and with
\* the time apply invoked.
C16_RetriesUnbounded ==
    /\ [](pc = "periodic" /\ h.thisPoll = "down" /\ h.unit = "none"
            => SinceUnitStart <= RECONNECT_COOLDOWN_MS)
    /\ (h.unit = "failed" /\ polls < MaxPolls)
            ~> \/ h.unit = "running"
               \/ h.thisPoll = "up"
               \/ /\ pc = "poll" /\ polls = MaxPolls /\ h.unit = "none"
                  /\ SinceUnitStart <= RECONNECT_COOLDOWN_MS + LOOP_DELAY_MS
    /\ h.unit = "running"
            ~> \/ h.unit = "failed"
               \/ pc = "panic"
               \/ h.unit = "ok" /\ wifiAssoc /\ h.iterApplies = 1

\* after a failed unit and an idle stretch, the next unit has succeeded and the
\* time apply was invoked
C16_Witness ==
    /\ ctx = "loop" /\ pc = "periodic"
    /\ h.sincePrevUnit # -1
    /\ h.unit = "ok" /\ wifiAssoc /\ h.iterApplies = 1

\* the stages of the attempt in progress, without the clock check of setup()
AttemptStages == IF InSetupHistory THEN Tail(h.stagesRun) ELSE h.stagesRun

Ran(stage) == \E i \in 1..Len(h.stagesRun) : h.stagesRun[i] = stage

\* C17: the activation steps run in the order SSID read, password read, enable
\* write, AP-state polling.  The password is read only after the SSID read of
\* the same attempt returned a non-empty value, the enable write happens only
\* after both reads of the same attempt returned non-empty values, and after a
\* read or an enable write that failed no later step of the attempt runs.
C17_ActivationInOrder ==
    /\ IsPrefix(AttemptStages, UnitStages) \/ AttemptStages = <<"apply">>
    /\ pc = "pwd" \/ Ran("pwd") =>
            /\ Ran("ssid")
            /\ Len(h.valuesRead) >= 1 /\ h.valuesRead[1] # EmptyValue
    /\ pc = "enable" \/ Ran("enable") =>
            /\ Ran("ssid") /\ Ran("pwd")
            /\ Len(h.valuesRead) = 2
            /\ h.valuesRead[1] # EmptyValue /\ h.valuesRead[2] # EmptyValue
            /\ Ran("enable") \/ (goProSSID = h.valuesRead[1] /\ goProPassword = h.valuesRead[2])
    /\ pc = "wait" \/ Ran("wait") => Ran("enable") /\ h.stageFailed # "enable"
    /\ h.stageFailed \in {"ssid", "pwd", "enable"} =>
            /\ h.stagesRun[Len(h.stagesRun)] = h.stageFailed
            /\ pc \notin {"pwd", "enable", "wait", "handover", "join", "apply"}

\* a unit whose SSID read returned an empty value: the password was not read
C17_Witness ==
    /\ h.unit = "failed" /\ h.stageFailed = "ssid"
    /\ h.last.op = "ssid" /\ h.last.out.kind = "ok" /\ h.last.out.val = EmptyValue
    /\ ~Ran("pwd")

\* the enable write of a unit after both of its reads returned values
C17_EnableAfterBothReads ==
    /\ h.unit = "running" /\ pc = "wait"
    /\ h.valuesRead = <<SsidValue, PwdValue>>

\* the place of the first characteristic with identifier c in an enumeration
FirstMatch(chars, c) ==
    CHOOSE i \in 1..Len(chars) : chars[i] = c /\ \A j \in 1..(i - 1) : chars[j] # c

\* C18: when an enumeration lists several characteristics with the same
\* identifier, the global is left bound to the first of them.
C18_FirstMatchBound ==
    h.last.op = "connect" /\ h.last.enumerated =>
        \A c \in h.last.ids : h.last.bound[c] = FirstMatch(h.last.chars, c)

\* what the loops do: every match assigns, so the last one stays
C18_LastMatchBound ==
    h.last.op = "connect" /\ h.last.enumerated =>
        \A c \in h.last.ids :
            /\ h.last.chars[h.last.bound[c]] = c
            /\ \A j \in (h.last.bound[c] + 1)..Len(h.last.chars) : h.last.chars[j] # c

\* an enumeration with two SSID characteristics and every required one
C18_Witness ==
    /\ h.last.op = "connect" /\ h.last.ok
    /\ h.last.chars = <<"ssid", "pwd", "enable", "state", "ssid">>

\* C19: one iteration of loop() invokes the time apply at most once: the apply
\* after a successful reconnection and the periodic apply never both run.
C19_OneApplyPerIteration ==
    /\ ctx = "loop" => h.iterApplies <= 1
    /\ ctx = "loop" /\ h.unit # "none" => ~h.periodicInvoked

\* an iteration reconnected, its apply failed, and at its periodic test the
\* station was associated with the last sync more than an hour old
C19_Witness ==
    /\ ctx = "loop" /\ pc = "delay"
    /\ h.unit = "ok" /\ h.iterApplies = 1 /\ h.applyResult = "fail"
    /\ wifiAssoc /\ Elapsed(Millis(now), lastSync) > RESYNC_PERIOD_MS

C20_LinkDownAfterLaterStages ==
    ctx = "loop" /\ pc \in {"periodic", "delay"} /\ h.unit \in {"ok", "failed"}
        /\ h.stageFailed \notin {"scan", "connect"}
        => ~bleConnected

\* a unit whose link stage connected and found the enumeration incomplete has
\* returned with the link still up
C20_Witness ==
    /\ ctx = "loop" /\ pc = "delay"
    /\ h.unit = "failed" /\ h.stageFailed = "connect"
    /\ h.last.op = "periodic"
    /\ bleConnected

\* C21: with millis() wrapping modulo 2^MillisBits and both gates testing
\* (millis() - last) modulo 2^MillisBits, neither gate opens early, the counter
\* having wrapped in between or not: a reconnection unit starts more than
\* 30000 ms after the start of the unit before it, and a periodic apply is
\* invoked more than 3600000 ms after lastSync was last assigned.
C21_GatesNeverEarly ==
    /\ h.unit # "none" /\ h.sincePrevUnit # -1 => h.sincePrevUnit > RECONNECT_COOLDOWN_MS
    /\ h.periodicInvoked /\ h.sinceRecorded # -1 => h.sinceRecorded > RESYNC_PERIOD_MS

\* a unit that started after the wrap, the unit before it having started
\* before the wrap
C21_Witness ==
    /\ h.unit # "none" /\ h.sincePrevUnit # -1
    /\ h.unitStart >= Pow2(MillisBits)
    /\ h.unitStart - h.sincePrevUnit < Pow2(MillisBits)
    /\ lastReconnectAttempt = Millis(h.unitStart)

\* a periodic apply invoked after the wrap, lastSync having been assigned
\* before the wrap: the counter read is below the stored value
C21_PeriodicAcrossWrap ==
    /\ pc = "delay" /\ h.periodicInvoked /\ h.applyResult = "fail"
    /\ h.recordedAt # -1 /\ h.recordedAt < Pow2(MillisBits)
    /\ now >= Pow2(MillisBits)
    /\ Millis(now) < lastSync

\* a health poll after the wrap that left both gates closed
C21_ClosedAcrossWrap ==
    /\ pc = "delay" /\ now >= Pow2(MillisBits)
    /\ h.iterApplies = 0 /\ h.unit = "none"
    /\ Millis(now) < lastSync
    /\ h.last.op = "periodic"

====
